---- MODULE Spec2Model ----
(***************************************************************************)
(* Model of src/main.py: the FFmpeg bootstrap (ensure_ffmpeg), the         *)
(* background job (DownloadWorker) and the two button handlers of          *)
(* MainWindow that start and cancel jobs.                                  *)
(*                                                                         *)
(* Text is modelled as a sequence of tokens (a token is a run of           *)
(* characters that is never split), so that substring, suffix and split    *)
(* tests are computed as Python computes them.  The progress value         *)
(* downloaded / total * 100 is kept as an exact reduced fraction           *)
(* <<numerator, denominator>>; floating-point rounding is not modelled.    *)
(* The libraries (requests, zipfile, shutil, subprocess, yt_dlp) are the   *)
(* environment: each of their outcomes is a nondeterministic choice.       *)
(* The slots update_progress, download_finished and download_error only    *)
(* write to widgets that nothing reads back; the model stops at the signal *)
(* that reaches them.                                                      *)
(***************************************************************************)
EXTENDS Integers, Sequences, FiniteSets, TLC

VARIABLES
    fs,            \* the paths that exist under the script directory
    ensure,        \* the most recent ensure_ffmpeg call: the file system
                   \* before it, and what the call did and returned
    jobs,          \* the DownloadWorker objects created so far, in order
    worker,        \* MainWindow.worker: 0 for None, else an index into jobs
    signals,       \* per worker, the signals it emitted to the slots of the
                   \* window (connected at lines 242-244), in emission order
    log_output     \* the lines the most recent button handler appended to the log

vars == <<fs, ensure, jobs, worker, signals, log_output>>

(***************************** bounds **************************************)
MaxJobs == 2       \* DownloadWorker objects created in one run of the model
MaxHooks == 2      \* progress callbacks the library makes per job
MaxBytes == 2      \* largest byte count the library reports
MaxErrLen == 2     \* tokens in a library error text
MaxEntries == 2    \* entries in a downloaded archive

Absent == -1       \* a dictionary value that is None, or a key it lacks

(***************************** text ****************************************)
\* Python's `pat in text`
Contains(text, pat) ==
    \E i \in 1..(Len(text) - Len(pat) + 1) : SubSeq(text, i, i + Len(pat) - 1) = pat

\* Python's text.endswith(pat)
EndsWith(text, pat) ==
    /\ Len(pat) <= Len(text)
    /\ SubSeq(text, Len(text) - Len(pat) + 1, Len(text)) = pat

\* Python's text.split(sep)[0]
RECURSIVE FirstPiece(_, _)
FirstPiece(text, sep) ==
    IF text = <<>> \/ Head(text) = sep THEN <<>>
    ELSE <<Head(text)>> \o FirstPiece(Tail(text), sep)

\* Python's text.strip(), on a text whose tokens are single characters
RECURSIVE LStrip(_)
LStrip(text) ==
    IF text # <<>> /\ Head(text) = " " THEN LStrip(Tail(text)) ELSE text

RECURSIVE RStrip(_)
RStrip(text) ==
    IF text # <<>> /\ text[Len(text)] = " " THEN RStrip(SubSeq(text, 1, Len(text) - 1))
    ELSE text

Strip(text) == RStrip(LStrip(text))

RECURSIVE SeqsUpTo(_, _)
SeqsUpTo(S, n) ==
    IF n = 0 THEN {<<>>}
    ELSE LET shorter == SeqsUpTo(S, n - 1)
         IN  shorter \cup {Append(s, x) : s \in shorter, x \in S}

(***************************** ensure_ffmpeg *******************************)
\* Python's None, where a text (a path, an entry name) is expected
None == <<>>

\* lines 23-25
ScriptsDir == <<"scripts">>

\* os.path.join(folder, name)
Join(folder, name) == folder \o <<"/">> \o name

FfmpegPath == Join(ScriptsDir, <<"ffmpeg.exe">>)

\* Archive entry names: "bin", "ffmpeg.exe" and each separator are one token.
EntryNames ==
    { <<"pkg", "/", "bin", "/", "ffmpeg.exe">>,
      <<"pkg", "\\", "bin", "\\", "ffmpeg.exe">>,
      <<"pkg", "/", "s", "bin", "/", "ffmpeg.exe">>,
      <<"pkg", "/", "bin", "/", "ffplay.exe">> }

\* z.namelist() of the archives the download can hold
Archives == SeqsUpTo(EntryNames, MaxEntries)

\* the condition of line 43
EntryMatches(f) ==
    /\ EndsWith(f, <<"ffmpeg.exe">>)
    /\ (Contains(f, <<"bin", "/">>) \/ Contains(f, <<"bin", "\\">>))

\* the loop of lines 41-45: the first matching entry, or None
RECURSIVE ScanArchive(_)
ScanArchive(names) ==
    IF names = <<>> THEN None
    ELSE IF EntryMatches(Head(names)) THEN Head(names)
    ELSE ScanArchive(Tail(names))

\* shutil.rmtree(folder): the folder and everything under it
Rmtree(files, folder) ==
    {p \in files : ~(p = folder \/ (Len(p) > Len(folder)
                                    /\ SubSeq(p, 1, Len(folder) + 1) = Append(folder, "/")))}

\* What the environment does during one call: the outcome of makedirs, of the
\* HTTP GET, of opening the archive, of extract and of move.
Env(makedirs, http, zip, namelist, extract, move) ==
    [makedirs |-> makedirs, http |-> http, zip |-> zip, namelist |-> namelist,
     extract |-> extract, move |-> move]

\* the environments that differ in what ensure_ffmpeg sees of them: a step
\* after the first failing one is never reached
EnvOf(archives) ==
    {Env("raise", "200", "ok", <<>>, "ok", "ok"),
     Env("ok", "raise", "ok", <<>>, "ok", "ok"),
     Env("ok", "404", "ok", <<>>, "ok", "ok"),
     Env("ok", "200", "BadZipFile", <<>>, "ok", "ok")}
    \cup {Env("ok", "200", "ok", a, "raise", "ok") : a \in archives}
    \cup {Env("ok", "200", "ok", a, "ok", m) : a \in archives, m \in {"ok", "raise"}}

\* One call of ensure_ffmpeg, as seen from outside: the value returned (None
\* on failure), whether an exception left the function instead, the file
\* system it leaves, the external operations performed in order, whether the
\* archive was scanned, the names scanned and the entry selected.
EnsureRecord(result, raised, files, ops, scanned, names, candidate) ==
    [called |-> TRUE, result |-> result, raised |-> raised, fs |-> files,
     ops |-> ops, scanned |-> scanned, names |-> names, candidate |-> candidate]

\* before the first call
NotCalled(files) ==
    [EnsureRecord(None, FALSE, files, <<>>, FALSE, <<>>, None) EXCEPT !.called = FALSE]

\* lines 49-54, once the candidate is known
Install(fs1, ops2, env, candidate) ==
    LET extracted_path == Join(ScriptsDir, candidate)
        extracted_folder == Join(ScriptsDir, FirstPiece(candidate, "/"))
        unpacked == fs1 \cup {extracted_path, extracted_folder}
        moved == (unpacked \ {extracted_path}) \cup {FfmpegPath}
    IN
    IF env.extract = "raise"
    THEN EnsureRecord(None, FALSE, fs1, Append(ops2, "extract"),
                      TRUE, env.namelist, candidate)
    ELSE IF env.move = "raise"
    THEN EnsureRecord(None, FALSE, unpacked, ops2 \o <<"extract", "move">>,
                      TRUE, env.namelist, candidate)
    ELSE IF extracted_folder \in moved
    THEN EnsureRecord(FfmpegPath, FALSE, Rmtree(moved, extracted_folder),
                      ops2 \o <<"extract", "move", "rmtree">>,
                      TRUE, env.namelist, candidate)
    ELSE EnsureRecord(FfmpegPath, FALSE, moved, ops2 \o <<"extract", "move">>,
                      TRUE, env.namelist, candidate)

\* lines 34-47: the download and the scan
Download(fs1, ops1, env) ==
    IF env.http # "200"
    THEN EnsureRecord(None, FALSE, fs1, ops1, FALSE, <<>>, None)
    ELSE IF env.zip = "BadZipFile"
    THEN EnsureRecord(None, FALSE, fs1, Append(ops1, "open_zip"), FALSE, <<>>, None)
    ELSE LET candidate == ScanArchive(env.namelist)
         IN  IF candidate = None
             THEN EnsureRecord(None, FALSE, fs1, Append(ops1, "open_zip"),
                               TRUE, env.namelist, None)
             ELSE Install(fs1, Append(ops1, "open_zip"), env, candidate)

\* ensure_ffmpeg without the test of line 27
ensure_ffmpeg_NoExistsTest(files, env) ==
    IF env.makedirs = "raise"
    THEN EnsureRecord(None, TRUE, files, <<"makedirs">>, FALSE, <<>>, None)
    ELSE Download(files \cup {ScriptsDir}, <<"makedirs", "http_get">>, env)

\* ensure_ffmpeg on the file system `files` in the environment `env`
ensure_ffmpeg(files, env) ==
    IF FfmpegPath \in files
    THEN EnsureRecord(FfmpegPath, FALSE, files, <<>>, FALSE, <<>>, None)
    ELSE IF env.makedirs = "raise"
    THEN EnsureRecord(None, TRUE, files, <<"makedirs">>, FALSE, <<>>, None)
    ELSE Download(files \cup {ScriptsDir}, <<"makedirs", "http_get">>, env)

(***************************** DownloadWorker ******************************)
\* "Download cancelled by user", the phrase run looks for (line 104)
Sentinel == <<"Download cancelled", " by user">>

\* the message of the exception my_hook raises (line 112)
HookMessage == Sentinel \o <<".">>

ErrTokens == {"Download cancelled", " by user", "ERROR: "}

\* str(e) of the errors the library can raise by itself
LibraryErrors == SeqsUpTo(ErrTokens, MaxErrLen)

\* the dictionaries the library passes to a progress hook
HookDicts ==
    [status : {"downloading", "finished"},
     total_bytes : {Absent} \cup (0..MaxBytes),
     total_bytes_estimate : {Absent} \cup (0..MaxBytes),
     downloaded_bytes : {Absent} \cup (0..MaxBytes)]

RECURSIVE GCD(_, _)
GCD(a, b) == IF b = 0 THEN a ELSE GCD(b, a % b)

\* the number n / d, d > 0, as a reduced fraction
Fraction(n, d) == LET g == GCD(n, d) IN <<n \div g, d \div g>>

\* Python truthiness of a number or None
Truthy(x) == x # Absent /\ x # 0

\* a or b
Or(a, b) == IF Truthy(a) THEN a ELSE b

\* d.get(key, default) on a value that may be missing
Get(x, default) == IF x = Absent THEN default ELSE x

\* line 116: downloaded / total * 100
progress_value(downloaded, total) ==
    LET q == Fraction(downloaded, total) IN Fraction(q[1] * 100, q[2])

Signal(sig, arg) == [sig |-> sig, arg |-> arg]

\* what a call of my_hook does: the signals it emits, and whether it raises
\* an exception whose str is text
HookResult(raises, text, emits) == [raises |-> raises, text |-> text, emits |-> emits]

\* my_hook with the flag tested after the progress signal instead of before
my_hook_FlagTestedLast(cancelled, d) ==
    LET total == Or(d.total_bytes, d.total_bytes_estimate)
        emits == IF d.status = "downloading" /\ Truthy(total)
                 THEN <<Signal("progress",
                               progress_value(Get(d.downloaded_bytes, 0), total))>>
                 ELSE <<>>
    IN  IF cancelled THEN HookResult(TRUE, HookMessage, emits)
        ELSE HookResult(FALSE, <<>>, emits)

\* my_hook without the fallback to total_bytes_estimate
my_hook_NoEstimate(cancelled, d) ==
    IF cancelled
    THEN HookResult(TRUE, HookMessage, <<>>)
    ELSE IF d.status = "downloading" /\ Truthy(d.total_bytes)
    THEN HookResult(FALSE, <<>>,
                    <<Signal("progress",
                             progress_value(Get(d.downloaded_bytes, 0), d.total_bytes))>>)
    ELSE HookResult(FALSE, <<>>, <<>>)

\* my_hook (lines 109-117) with self.cancelled = cancelled
my_hook(cancelled, d) ==
    IF cancelled
    THEN HookResult(TRUE, HookMessage, <<>>)
    ELSE IF d.status = "downloading"
    THEN LET total == Or(d.total_bytes, d.total_bytes_estimate)
         IN  IF Truthy(total)
             THEN HookResult(FALSE, <<>>,
                             <<Signal("progress",
                                      progress_value(Get(d.downloaded_bytes, 0), total))>>)
             ELSE HookResult(FALSE, <<>>, <<>>)
    ELSE HookResult(FALSE, <<>>, <<>>)

\* How ydl.download stands: still running, returned, raised an error of its
\* own ("raise"), or left by an exception of the progress hook ("hook");
\* text is the str of the exception.
Pending == [kind |-> "running", text |-> <<>>]
Returned == [kind |-> "return", text |-> <<>>]
Raised(text) == [kind |-> "raise", text |-> text]
HookRaised(text) == [kind |-> "hook", text |-> text]

\* run with the emit of line 102 placed after the try statement
run_FinishedAfterTry(outcome) ==
    IF outcome.kind = "return"
    THEN <<Signal("finished", <<"Download finished!">>)>>
    ELSE IF Contains(outcome.text, Sentinel)
    THEN <<Signal("finished", <<"Download cancelled.">>),
           Signal("finished", <<"Download finished!">>)>>
    ELSE <<Signal("error", outcome.text), Signal("finished", <<"Download finished!">>)>>

\* the try statement of run (lines 99-107): the signals emitted when
\* ydl.download ends with `outcome`
run(outcome) ==
    IF outcome.kind = "return"
    THEN <<Signal("finished", <<"Download finished!">>)>>
    ELSE IF Contains(outcome.text, Sentinel)
    THEN <<Signal("finished", <<"Download cancelled.">>)>>
    ELSE <<Signal("error", outcome.text)>>

\* before the first progress callback
NoDict ==
    [status |-> "none", total_bytes |-> Absent, total_bytes_estimate |-> Absent,
     downloaded_bytes |-> Absent]

\* DownloadWorker.__init__ (lines 66-72) followed by start().  running is
\* QThread.isRunning(), hooks counts the progress callbacks made so far, d is
\* the dictionary of the latest one, outcome is how ydl.download stands.
DownloadWorker(url, ffmpeg_path) ==
    [url |-> url, ffmpeg_path |-> ffmpeg_path, cancelled |-> FALSE,
     running |-> TRUE, hooks |-> 0, d |-> NoDict, outcome |-> Pending]

\* the signals after job j emits sigs
Emit(j, sigs) == [signals EXCEPT ![j] = @ \o sigs]

JobIds == 1..Len(jobs)

IsTerminal(s) == s.sig \in {"finished", "error"}
IsCompleted(s) == s.sig = "finished" /\ s.arg = <<"Download finished!">>
IsCancelled(s) == s.sig = "finished" /\ s.arg = <<"Download cancelled.">>
IsFailed(s) == s.sig = "error"

\* ydl.download ends with outcome: run emits its terminal signal and returns
RunEnds(j, outcome) ==
    /\ jobs[j].running
    /\ jobs' = [jobs EXCEPT ![j].running = FALSE, ![j].outcome = outcome]
    /\ signals' = Emit(j, run(outcome))
    /\ UNCHANGED <<fs, ensure, worker, log_output>>

\* The library calls the progress hook of job j with d.  An exception raised
\* by the hook leaves ydl.download and is handled by run.
HookCalled(j, d, maxHooks) ==
    /\ j \in JobIds
    /\ jobs[j].running
    /\ jobs[j].hooks < maxHooks
    /\ LET h == my_hook(jobs[j].cancelled, d)
           ends == IF h.raises THEN run(HookRaised(h.text)) ELSE <<>>
       IN  /\ jobs' = [jobs EXCEPT ![j].hooks = @ + 1, ![j].d = d,
                                    ![j].running = ~h.raises,
                                    ![j].outcome = IF h.raises THEN HookRaised(h.text)
                                                   ELSE @]
           /\ signals' = Emit(j, h.emits \o ends)
    /\ UNCHANGED <<fs, ensure, worker, log_output>>

\* ydl.download returns normally
DownloadReturns(j) ==
    /\ j \in JobIds
    /\ RunEnds(j, Returned)

\* ydl.download raises an error of its own
DownloadRaises(j, text) ==
    /\ j \in JobIds
    /\ RunEnds(j, Raised(text))

(***************************** MainWindow **********************************)
\* what url_input can hold; every token is one character
UrlTexts == {<<>>, <<" ">>, <<"u">>, <<" ", "u", " ">>}

\* the first line start_download logs (line 220)
Checking == "Checking for FFmpeg in the scripts directory..."

\* StartDecision with the return of line 231 missing: a failed -version run
\* is logged and the handler goes on
StartDecision_NoReturn(e, version_ok, url) ==
    IF e.raised
    THEN [start |-> FALSE, log |-> <<Checking>>]
    ELSE IF e.result = None
    THEN [start |-> FALSE,
          log |-> <<Checking, "Error: FFmpeg could not be installed automatically.">>]
    ELSE LET checked ==
                 IF version_ok
                 THEN <<Checking, "FFmpeg check passed using the scripts directory.">>
                 ELSE <<Checking,
                        "Error: FFmpeg is not accessible from the scripts directory. ">>
         IN  IF url = <<>>
             THEN [start |-> FALSE, log |-> Append(checked, "Please enter a valid URL.")]
             ELSE [start |-> TRUE, log |-> Append(checked, "Starting download...")]

\* start_download (lines 219-246) after ensure_ffmpeg returned e, with the
\* outcome of the `-version` run and the stripped URL: whether a worker is
\* created and the lines appended to the log
StartDecision(e, version_ok, url) ==
    LET checking == <<Checking>>
    IN
    IF e.raised
    THEN [start |-> FALSE, log |-> checking]
    ELSE IF e.result = None
    THEN [start |-> FALSE,
          log |-> Append(checking, "Error: FFmpeg could not be installed automatically.")]
    ELSE IF ~version_ok
    THEN [start |-> FALSE,
          log |-> Append(checking,
                         "Error: FFmpeg is not accessible from the scripts directory. ")]
    ELSE IF url = <<>>
    THEN [start |-> FALSE,
          log |-> checking \o <<"FFmpeg check passed using the scripts directory.",
                                "Please enter a valid URL.">>]
    ELSE [start |-> TRUE,
          log |-> checking \o <<"FFmpeg check passed using the scripts directory.",
                                "Starting download...">>]

\* The Download button: url_input holds text, the environment behaves as env
\* during ensure_ffmpeg, and the `-version` run succeeds iff version_ok.
start_download(text, env, version_ok, maxJobs) ==
    \E e \in {ensure_ffmpeg(fs, env)} :
      \E dec \in {StartDecision(e, version_ok, Strip(text))} :
        /\ dec.start => Len(jobs) < maxJobs
        /\ fs' = e.fs
        /\ ensure' = [call |-> e, before |-> fs]
        /\ log_output' = dec.log
        /\ IF dec.start
           THEN /\ jobs' = Append(jobs, DownloadWorker(Strip(text), e.result))
                /\ signals' = Append(signals, <<>>)
                /\ worker' = Len(jobs) + 1
           ELSE UNCHANGED <<jobs, worker, signals>>

\* CancelTargets when every running worker is cancelled
CancelTargets_AllRunning == {j \in 1..Len(jobs) : jobs[j].running}

\* the workers cancel_download sets the flag of (lines 249-250)
CancelTargets ==
    IF worker # 0 /\ jobs[worker].running THEN {worker} ELSE {}

\* The Cancel Download button (lines 248-253)
cancel_download ==
    /\ jobs' = [j \in JobIds |->
                   IF j \in CancelTargets THEN [jobs[j] EXCEPT !.cancelled = TRUE]
                   ELSE jobs[j]]
    /\ log_output' = IF CancelTargets # {} THEN <<"Cancelling download...">>
                     ELSE <<"No active download to cancel.">>
    /\ UNCHANGED <<fs, ensure, worker, signals>>

(***************************** specification *******************************)
\* The program starts with or without the scripts directory and ffmpeg.exe,
\* no worker, and an empty progress bar and log.
Init ==
    /\ fs \in {{}, {ScriptsDir}, {ScriptsDir, FfmpegPath}}
    /\ ensure = [call |-> NotCalled(fs), before |-> fs]
    /\ jobs = <<>>
    /\ worker = 0
    /\ signals = <<>>
    /\ log_output = <<>>

\* the archives of the whole-program specification
FewArchives == {<<>>, <<<<"pkg", "/", "bin", "/", "ffmpeg.exe">>>>}

NextOf(envs, dicts, errors, maxJobs, maxHooks) ==
    \/ \E text \in UrlTexts, env \in envs, version_ok \in BOOLEAN :
           start_download(text, env, version_ok, maxJobs)
    \/ cancel_download
    \/ \E j \in JobIds, d \in dicts : HookCalled(j, d, maxHooks)
    \/ \E j \in JobIds : DownloadReturns(j)
    \/ \E j \in JobIds, text \in errors : DownloadRaises(j, text)

\* the hook dictionaries of the whole-program specification: one byte of an
\* unknown total, one byte of two, and the end of a download of two bytes
FewDicts ==
    {d \in HookDicts : /\ d.total_bytes_estimate = Absent
                       /\ d.total_bytes \in {Absent, 2}
                       /\ \/ d.status = "downloading" /\ d.downloaded_bytes = 1
                          \/ /\ d.status = "finished"
                             /\ d.downloaded_bytes = d.total_bytes
                             /\ d.total_bytes = 2}

\* the library errors of the whole-program specification
FewErrors == {<<"ERROR: ">>, <<"ERROR: ">> \o Sentinel}

FewEnvs == EnvOf(FewArchives)

\* The whole program: several workers, each with at most one progress callback.
Next == NextOf(FewEnvs, FewDicts, FewErrors, MaxJobs, 1)

Spec == Init /\ [][Next]_vars

NoArchiveEnvs == EnvOf({})

\* One worker, ffmpeg.exe in place: every sequence of progress callbacks,
\* button presses and library outcomes, over every library error text.
InitJob == Init /\ FfmpegPath \in fs

NextJob == NextOf(NoArchiveEnvs, FewDicts, LibraryErrors, 1, MaxHooks)

SpecJob == InitJob /\ [][NextJob]_vars

\* One worker with one progress callback, over every hook dictionary.
NextHook == NextOf(NoArchiveEnvs, HookDicts, FewErrors, 1, 1)

SpecHook == InitJob /\ [][NextHook]_vars

\* The two buttons alone, over every archive the download can hold.
BootEnvs == EnvOf(Archives)

NextBoot ==
    \/ \E text \in UrlTexts, env \in BootEnvs, version_ok \in BOOLEAN :
           start_download(text, env, version_ok, MaxJobs)
    \/ cancel_download

SpecBoot == Init /\ [][NextBoot]_vars

(***************************** claims ***************************************)
TerminalCount(sigs) == Len(SelectSeq(sigs, IsTerminal))
ProgressOf(sigs) == SelectSeq(sigs, LAMBDA s : s.sig = "progress")
Last(sigs) == sigs[Len(sigs)]

\* C1: a started job has emitted no terminal signal while it runs, and once
\* run has ended it has emitted exactly one, which is the last signal of the
\* job: nothing follows it, whatever callbacks, cancel() calls and library
\* outcomes came before.
C1_OneTerminalLast ==
    \A j \in JobIds :
        /\ jobs[j].running => TerminalCount(signals[j]) = 0
        /\ ~jobs[j].running =>
               /\ TerminalCount(signals[j]) = 1
               /\ IsTerminal(Last(signals[j]))
               /\ \/ IsCompleted(Last(signals[j]))
                  \/ IsCancelled(Last(signals[j]))
                  \/ IsFailed(Last(signals[j]))

\* a job cancelled after it emitted progress, ended by its next callback
C1_Witness ==
    \E j \in JobIds :
        /\ ~jobs[j].running
        /\ jobs[j].cancelled
        /\ jobs[j].hooks = 2
        /\ Len(signals[j]) = 2
        /\ IsCancelled(Last(signals[j]))

\* C2: when the progress hook of a running job fires for the first time with
\* the cancellation flag already set, the job ends there, and its only signal
\* is finished("Download cancelled."): no progress signal before it, none
\* after it.
C2_CancelBeforeFirstHook ==
    [][\A j \in JobIds :
          (jobs[j].running /\ jobs[j].cancelled /\ jobs[j].hooks = 0
           /\ jobs'[j].hooks = 1)
          => /\ ~jobs'[j].running
             /\ signals'[j] = <<Signal("finished", <<"Download cancelled.">>)>>]_vars

\* a job whose first callback found the flag set
C2_Witness ==
    \E j \in JobIds :
        /\ jobs[j].cancelled
        /\ jobs[j].hooks = 1
        /\ jobs[j].outcome.kind = "hook"
        /\ signals[j] = <<Signal("finished", <<"Download cancelled.">>)>>

\* C3: when ydl.download raises an error of its own in a job whose flag was
\* never set, the one terminal signal of the job is error(str(e)), never the
\* cancelled message, and a job that had no progress callback has emitted no
\* progress signal.
C3_LibraryErrorIsFailed ==
    \A j \in JobIds :
        (jobs[j].outcome.kind = "raise" /\ ~jobs[j].cancelled)
        => /\ TerminalCount(signals[j]) = 1
           /\ Last(signals[j]) = Signal("error", jobs[j].outcome.text)
           /\ jobs[j].hooks = 0 => ProgressOf(signals[j]) = <<>>

\* C10: the flag alone changes nothing: a job ends Cancelled only by a
\* progress callback that found the flag set; a job whose library call
\* returned ends Completed and one whose library call raised ends Failed.
C10_CancelledOnlyByHook ==
    \A j \in JobIds :
        /\ (~jobs[j].running /\ IsCancelled(Last(signals[j])))
           => (jobs[j].cancelled /\ jobs[j].outcome.kind = "hook")
        /\ jobs[j].outcome.kind = "return" => IsCompleted(Last(signals[j]))
        /\ jobs[j].outcome.kind = "raise" => IsFailed(Last(signals[j]))

\* C4: a call of ensure_ffmpeg that finds ffmpeg.exe at its path returns that
\* path, performs no HTTP request and no archive, extract, move or delete
\* operation, and leaves the file system as it found it, so every later
\* call does the same.
C4_FastPathIdempotent ==
    /\ fs = ensure.call.fs
    /\ (ensure.call.called /\ FfmpegPath \in ensure.before)
       => /\ ensure.call.result = FfmpegPath
          /\ ~ensure.call.raised
          /\ ensure.call.ops = <<>>
          /\ ensure.call.fs = ensure.before

\* a call that found the executable a successful download had installed
C4_Witness ==
    /\ ensure.call.called
    /\ FfmpegPath \in ensure.before
    /\ ensure.call.result = FfmpegPath
    /\ Len(jobs) = 2

Separators == {"/", "\\"}

\* the entry has a directory component named exactly bin
HasBinSegment(f) ==
    \E i \in 1..(Len(f) - 1) :
        /\ f[i] = "bin"
        /\ f[i + 1] \in Separators
        /\ i = 1 \/ f[i - 1] \in Separators

RECURSIVE FirstUnderBin(_)
FirstUnderBin(names) ==
    IF names = <<>> THEN None
    ELSE IF EndsWith(Head(names), <<"ffmpeg.exe">>) /\ HasBinSegment(Head(names))
    THEN Head(names)
    ELSE FirstUnderBin(Tail(names))

\* C5: the scan selects the first entry that ends with ffmpeg.exe and has a
\* directory component named bin, under either separator, and no entry
\* without one; when there is none, ensure_ffmpeg returns None and extracts
\* nothing.
C5_ScanSelectsFirstUnderBin ==
    ensure.call.scanned
    => /\ ensure.call.candidate = FirstUnderBin(ensure.call.names)
       /\ FirstUnderBin(ensure.call.names) = None
          => /\ ensure.call.result = None
             /\ ~Contains(ensure.call.ops, <<"extract">>)

\* C6: a progress callback of a job whose flag is not set raises nothing; it
\* emits a progress signal exactly when the status is 'downloading' and
\* total_bytes, or else total_bytes_estimate, is a non-zero number; the value
\* is 100 * downloaded / total, within [0, 100] when downloaded <= total.
C6_ProgressValue ==
    \A j \in JobIds :
        (jobs[j].hooks = 1 /\ ~jobs[j].cancelled)
        => LET d == jobs[j].d
               known(x) == x # Absent /\ x # 0
               total == IF known(d.total_bytes) THEN d.total_bytes
                        ELSE d.total_bytes_estimate
               downloaded == IF d.downloaded_bytes = Absent THEN 0
                             ELSE d.downloaded_bytes
               progress == ProgressOf(signals[j])
           IN  /\ jobs[j].outcome.kind # "hook"
               /\ Len(progress) = IF d.status = "downloading" /\ known(total)
                                  THEN 1 ELSE 0
               /\ Len(progress) = 1
                  => LET v == progress[1].arg
                     IN  /\ v[2] > 0
                         /\ v[1] * total = 100 * downloaded * v[2]
                         /\ downloaded <= total => (0 <= v[1] /\ v[1] <= 100 * v[2])

\* one byte of an estimated two: 50 percent
C6_Witness ==
    \E j \in JobIds :
        /\ jobs[j].hooks = 1
        /\ ~jobs[j].cancelled
        /\ jobs[j].d.total_bytes = 0
        /\ jobs[j].d.total_bytes_estimate = 2
        /\ jobs[j].d.downloaded_bytes = 1
        /\ ProgressOf(signals[j]) = <<Signal("progress", <<50, 1>>)>>

\* C7: at most one job is running at any time.
C7_AtMostOneRunning ==
    Cardinality({j \in JobIds : jobs[j].running}) <= 1

\* C9: a worker is created only by a start_download in which ensure_ffmpeg
\* returned the path, then the -version run passed, then the stripped URL
\* was non-empty; the worker holds that path and URL.  A start_download in
\* which the download, the archive, the extraction, the -version run or the
\* URL fails logs that failure, creates no worker and leaves the tracked
\* worker and every running thread as they were.
C9_StartOnlyAfterChecks ==
    [][LET n == Len(jobs')
           e == ensure'.call
       IN  /\ n \in {Len(jobs), Len(jobs) + 1}
           /\ n = Len(jobs) + 1
              => /\ e.called /\ ~e.raised
                 /\ e.result = FfmpegPath
                 /\ FfmpegPath \in fs'
                 /\ log_output' = <<Checking,
                                    "FFmpeg check passed using the scripts directory.",
                                    "Starting download...">>
                 /\ jobs'[n].ffmpeg_path = e.result
                 /\ jobs'[n].url # <<>>
                 /\ Head(jobs'[n].url) # " " /\ Last(jobs'[n].url) # " "
                 /\ jobs'[n].running
                 /\ worker' = n
           /\ n = Len(jobs)
              => /\ worker' = worker
                 /\ \A j \in JobIds : jobs'[j].running = jobs[j].running
                 /\ (log_output' # <<>> /\ Head(log_output') = Checking /\ ~e.raised)
                    => \/ /\ e.result = None
                          /\ log_output' = <<Checking,
                                 "Error: FFmpeg could not be installed automatically.">>
                       \/ /\ e.result = FfmpegPath
                          /\ log_output' = <<Checking,
                                 "Error: FFmpeg is not accessible from the scripts directory. ">>
                       \/ /\ e.result = FfmpegPath
                          /\ log_output' = <<Checking,
                                 "FFmpeg check passed using the scripts directory.",
                                 "Please enter a valid URL.">>]_vars

\* a worker started by the call that downloaded and installed ffmpeg.exe
C9_Witness ==
    /\ Len(jobs) = 1
    /\ jobs[1].running
    /\ Contains(ensure.call.ops, <<"extract", "move", "rmtree">>)
    /\ jobs[1].ffmpeg_path = FfmpegPath
    /\ FfmpegPath \in fs

\* C8: the tracked worker is always the newest one.  A start_download that
\* creates a worker while earlier ones run changes nothing of them: no flag
\* is set, no thread is ended, the start is not rejected.  A worker that is
\* not the tracked one keeps its flag as it is, so one whose flag is unset
\* is never ended by the cancellation exception of its hook; its signals
\* keep reaching the slots.
C8_OrphanKeepsFlag ==
    [][/\ worker' = Len(jobs')
       /\ Len(jobs') > Len(jobs)
          => \A j \in JobIds : jobs'[j] = jobs[j] /\ signals'[j] = signals[j]
       /\ \A j \in JobIds :
            j # worker'
            => /\ jobs'[j].cancelled = jobs[j].cancelled
               /\ ~jobs[j].cancelled => jobs'[j].outcome.kind # "hook"]_vars

\* two running workers that both emitted progress; Cancel reached the newer
C8_Witness ==
    /\ worker = 2
    /\ jobs[1].running /\ jobs[2].running
    /\ ~jobs[1].cancelled /\ jobs[2].cancelled
    /\ signals[1] = <<Signal("progress", <<50, 1>>)>>
    /\ signals[2] = <<Signal("progress", <<50, 1>>)>>

\* C8 as stated, on the steps where the flag takes effect: a progress
\* callback of a running worker that is no longer the tracked one never
\* ends it as Cancelled.
C8_OrphanNeverCancelled ==
    [][\A j \in JobIds :
          (j # worker /\ jobs[j].running /\ jobs'[j].hooks = jobs[j].hooks + 1)
          => ~(~jobs'[j].running /\ IsCancelled(Last(signals'[j])))]_vars

====
